---- MODULE Spec2Model ----
(***************************************************************************)
(* Model of scripts/main.py: download every file of a Gitea repository's   *)
(* HEAD tree concurrently (three batches of load_file coroutines under     *)
(* asyncio.gather), then hash the downloaded files sequentially and append *)
(* "<file>: <hash>" lines to the hash file.                                *)
(***************************************************************************)
EXTENDS Integers, Sequences, FiniteSets, TLC

(* ------------------------------ bounds --------------------------------- *)
\* longest tree response of a pipeline run
MaxTree == 4
\* longest tree response handed to get_filepaths / the batch population alone
MaxAnyTree == 4
\* longest file given to get_hexhash step by step
MaxLen == 3
\* largest bufsize given to get_hexhash step by step
MaxBuf == 2
\* number of runs of the script against the same hash file
MaxRuns == 2
\* longest tree response of the rerun scenario
MaxRerunTree == 2

(* --------------------------- program constants ------------------------- *)
\* batches = ([], [], []) and index % 3
FanOut == 3
\* get_hexhash(file_to_hash, bufsize=262144)
DefaultBufsize == 262144
TMP_DIR_PATH == "tmp/radium_project-configuration_HEAD"
HASH_FILE_PATH == "tmp/radium_project-configuration_HASH.txt"

(* ------------------------------ universe ------------------------------- *)
\* the entries a tree response is built from: files, a directory, a submodule
Entries ==
    { [path |-> "sub",       type |-> "tree"],
      [path |-> "sub/b.txt", type |-> "blob"],
      [path |-> "a.txt",     type |-> "blob"],
      [path |-> "mod",       type |-> "commit"],
      [path |-> "c.txt",     type |-> "blob"] }

Paths == { e.path : e \in Entries }

Byte == {0, 1}

\* no file at a path: a value that is no sequence of bytes
NoFile == <<-1>>

Min(a, b) == IF a <= b THEN a ELSE b

\* sequences over S of length at most n
SeqUpTo(S, n) == UNION { [1..k -> S] : k \in 0..n }

\* sequences over S without repetition, of length at most n
InjSeqUpTo(S, n) ==
    { s \in SeqUpTo(S, n) : \A i, j \in 1..Len(s) : i # j => s[i] # s[j] }

\* the body the raw endpoint serves for each path
RawBodies ==
    { [p \in Paths |-> CASE p = "a.txt"     -> <<1>>
                         [] p = "sub/b.txt" -> <<1, 0>>
                         [] p = "c.txt"     -> <<>>
                         [] p = "mod"       -> <<0, 1>>
                         [] OTHER           -> <<0>>] }

\* content left at a destination by something that ran before
StaleBody == <<0, 0, 1>>

VARIABLES
    tree,       \* remote: the 'tree' list of the tree endpoint's JSON
    raw,        \* remote: body of the raw endpoint, per path
    fs,         \* local files: destination path -> bytes or NoFile
    dirs,       \* local directories that exist
    manifest,   \* lines of the hash file
    mainpc,     \* position of main()
    raised,     \* where the exception that left main was raised
    filepaths,  \* main's filepaths
    batches,    \* main's batches: 0..2 -> list of load_file coroutines (their filepath)
    bpc,        \* position of each batcher task
    lfpc,       \* position of each load_file coroutine, per batch and slot
    hidx,       \* hash_files: index of the file the for loop is at
    runs,       \* number of runs started
    started,    \* history: the hash file's lines at the start of each run
    outcomes,   \* history: how each earlier run ended
    hfile,      \* get_hexhash: bytes of file_to_hash
    hpos,       \* get_hexhash: read offset of file_to_hash
    buf,        \* get_hexhash: buf
    digest,     \* get_hexhash: bytes fed to the sha256 object
    hpc,        \* get_hexhash: position
    hexhash     \* get_hexhash: returned value

pipevars == <<tree, raw, fs, dirs, manifest, mainpc, raised, filepaths, batches,
              bpc, lfpc, hidx, runs, started, outcomes>>
hashvars == <<hfile, hpos, buf, digest, hpc, hexhash>>
vars == <<pipevars, hashvars>>

(* ------------------------------ paths ---------------------------------- *)
\* Path(TMP_DIR_PATH, filepath)
LocalPath(filepath) == <<TMP_DIR_PATH, filepath>>

\* download_path.parent
Parent(download_path) ==
    IF download_path[2] = "sub/b.txt" THEN <<TMP_DIR_PATH, "sub">>
    ELSE <<TMP_DIR_PATH>>

\* download_path.parent.mkdir(parents=True, exist_ok=True)
Mkdir(ds, dir) ==
    ds \cup { dir, <<TMP_DIR_PATH>>, <<"tmp">> }

write_if_absent(files, download_path, body) ==
    IF files[download_path] = NoFile THEN [files EXCEPT ![download_path] = body]
    ELSE files

\* download_path.write_bytes(body): create or truncate, then write
WriteBytes(files, download_path, body) ==
    [files EXCEPT ![download_path] = body]

LocalPaths == { LocalPath(p) : p \in Paths }

(* --------------------------- get_filepaths ----------------------------- *)
RECURSIVE get_filepaths_blobs(_)
get_filepaths_blobs(t) ==
    IF t = <<>> THEN <<>>
    ELSE (IF Head(t).type = "blob" THEN <<Head(t).path>> ELSE <<>>)
         \o get_filepaths_blobs(Tail(t))

\* [node['path'] for node in tree['tree'] if node['type'] != 'tree']
RECURSIVE get_filepaths(_)
get_filepaths(t) ==
    IF t = <<>> THEN <<>>
    ELSE (IF Head(t).type # "tree" THEN <<Head(t).path>> ELSE <<>>)
         \o get_filepaths(Tail(t))

(* ------------------------------ batches -------------------------------- *)
EmptyBatches == [b \in 0..(FanOut - 1) |-> <<>>]

RECURSIVE populate_all(_, _, _)
populate_all(bs, index, fps) ==
    IF index >= Len(fps) THEN bs
    ELSE populate_all([b \in DOMAIN bs |->
                          IF b = index % FanOut \/ b = (index + 1) % FanOut
                          THEN Append(bs[b], fps[index + 1]) ELSE bs[b]],
                      index + 1, fps)

RECURSIVE populate_mod2(_, _, _)
populate_mod2(bs, index, fps) ==
    IF index >= Len(fps) THEN bs
    ELSE populate_mod2([bs EXCEPT ![index % 2] = Append(@, fps[index + 1])],
                       index + 1, fps)

\* for index, filepath in enumerate(filepaths):
\*     batches[index % 3].append(load_file(session, filepath))
RECURSIVE populate(_, _, _)
populate(bs, index, fps) ==
    IF index >= Len(fps) THEN bs
    ELSE populate([bs EXCEPT ![index % FanOut] = Append(@, fps[index + 1])],
                  index + 1, fps)

(* ------------------------------ get_hexhash ---------------------------- *)
\* bytearray(bufsize): zero-filled; kept as its length and the prefix written so far
NewBuf(bufsize) == [len |-> bufsize, data |-> <<>>]

BufAt(b, i) == IF i <= Len(b.data) THEN b.data[i] ELSE 0

\* file_to_hash.readinto(buf) storing chunk at the start of buf
Readinto(b, chunk) ==
    [b EXCEPT !.data = chunk \o SubSeq(b.data, Len(chunk) + 1, Len(b.data))]

view_whole(b, size) == [i \in 1..b.len |-> BufAt(b, i)]

\* view[:size]
view_upto(b, size) == [i \in 1..Min(size, b.len) |-> BufAt(b, i)]

\* digest.update(chunk)
update(d, chunk) == d \o chunk

\* digest.hexdigest(): SHA-256 of everything fed, taken as collision free
hexdigest(d) == [sha256 |-> d]

\* the while loop with every readinto filling as much of buf as the file has left
RECURSIVE hexhash_loop(_, _, _, _)
hexhash_loop(file, pos, b, d) ==
    LET size == Min(b.len, Len(file) - pos)
        b2   == Readinto(b, SubSeq(file, pos + 1, pos + size))
    IN  IF size = 0 THEN hexdigest(d)
        ELSE hexhash_loop(file, pos + size, b2, update(d, view_upto(b2, size)))

get_hexhash(file, bufsize) == hexhash_loop(file, 0, NewBuf(bufsize), <<>>)

(* ------------------------------ hash_files ----------------------------- *)
\* '{file}: {hash}\n'.format(file=filepath, hash=hexhash)
Line(filepath, hash) == [file |-> filepath, hash |-> hash]

append_truncating(lines, line) == <<line>>

\* HASH_FILE_PATH.open('a') ... hash_file.write(line)
append_line(lines, line) == Append(lines, line)

hash_targets_reversed(fps) == [i \in 1..Len(fps) |-> LocalPath(fps[Len(fps) + 1 - i])]

\* [Path(TMP_DIR_PATH, fpath) for fpath in filepaths]
hash_targets(fps) == [i \in 1..Len(fps) |-> LocalPath(fps[i])]

(* ------------------------------ initial state -------------------------- *)
NoTasks == [b \in 0..(FanOut - 1) |-> <<>>]

\* a line left in the hash file by something that ran before
StaleLine == Line(LocalPath("a.txt"), hexdigest(StaleBody))

RunInit ==
    /\ mainpc = "load_tree"
    /\ raised = "none"
    /\ filepaths = <<>>
    /\ batches = EmptyBatches
    /\ bpc = [b \in 0..(FanOut - 1) |-> "none"]
    /\ lfpc = NoTasks
    /\ hidx = 0

HashIdle ==
    /\ hfile = <<>>
    /\ hpos = 0
    /\ buf = NewBuf(1)
    /\ digest = <<>>
    /\ hpc = "idle"
    /\ hexhash = "none"

\* a first run on a clean disk, or a run over what an earlier one left behind
EnvInit ==
    /\ raw \in RawBodies
    /\ \/ /\ fs = [p \in LocalPaths |-> NoFile]
          /\ dirs = {}
          /\ manifest = <<>>
       \/ /\ fs = [p \in LocalPaths |-> StaleBody]
          /\ dirs = { <<"tmp">>, <<TMP_DIR_PATH>>, <<TMP_DIR_PATH, "sub">> }
          /\ manifest = <<StaleLine>>
    /\ runs = 1
    /\ started = <<manifest>>
    /\ outcomes = <<>>

Init ==
    /\ tree \in InjSeqUpTo(Entries, MaxTree)
    /\ EnvInit
    /\ RunInit
    /\ HashIdle

(* ------------------------------ main: tree ----------------------------- *)
\* filepaths = get_filepaths(await load_tree(session)); the batches are populated
\* and one task per batch is created, up to the await of the outer gather
load_tree_ok ==
    /\ mainpc = "load_tree"
    /\ filepaths' = get_filepaths(tree)
    /\ batches' = populate(EmptyBatches, 0, filepaths')
    /\ lfpc' = [b \in 0..(FanOut - 1) |-> [j \in 1..Len(batches'[b]) |-> "created"]]
    /\ bpc' = [b \in 0..(FanOut - 1) |-> "created"]
    /\ mainpc' = "gather"
    /\ UNCHANGED <<raised, tree, raw, fs, dirs, manifest, hidx, runs, started, outcomes>>
    /\ UNCHANGED hashvars

\* session.get(TREE_API_URL) or response.json() raises
load_tree_fail ==
    /\ mainpc = "load_tree"
    /\ mainpc' = "failed"
    /\ raised' = "load_tree"
    /\ UNCHANGED <<tree, raw, fs, dirs, manifest, filepaths, batches, bpc, lfpc,
                   hidx, runs, started, outcomes>>
    /\ UNCHANGED hashvars

(* ------------------------------ batcher -------------------------------- *)
\* the batcher task starts: asyncio.gather(*batch) wraps every coroutine of the
\* batch in a task of its own
batcher_start(b) ==
    /\ mainpc = "gather"
    /\ bpc[b] = "created"
    /\ bpc' = [bpc EXCEPT ![b] = "gather"]
    /\ lfpc' = [lfpc EXCEPT ![b] = [j \in 1..Len(lfpc[b]) |-> "ready"]]
    /\ UNCHANGED <<raised, tree, raw, fs, dirs, manifest, mainpc, filepaths, batches,
                   hidx, runs, started, outcomes>>
    /\ UNCHANGED hashvars

gathered_any(pcs) == \E j \in 1..Len(pcs) : pcs[j] = "done"

gathered_ignoring_errors(pcs) == \A j \in 1..Len(pcs) : pcs[j] \in {"done", "failed"}

\* the future of gather(*children) gets its result: every child finished normally
gathered(pcs) == \A j \in 1..Len(pcs) : pcs[j] = "done"

\* the future of gather(*children) gets an exception: some child raised
gather_raised(pcs) == \E j \in 1..Len(pcs) : pcs[j] = "failed"

\* await asyncio.gather(*batch) returns
batcher_return(b) ==
    /\ bpc[b] = "gather"
    /\ gathered(lfpc[b])
    /\ bpc' = [bpc EXCEPT ![b] = "done"]
    /\ UNCHANGED <<raised, tree, raw, fs, dirs, manifest, mainpc, filepaths, batches,
                   lfpc, hidx, runs, started, outcomes>>
    /\ UNCHANGED hashvars

\* await asyncio.gather(*batch) raises the exception of a load_file; the other
\* coroutines of the batch are not cancelled
batcher_raise(b) ==
    /\ bpc[b] = "gather"
    /\ gather_raised(lfpc[b])
    /\ bpc' = [bpc EXCEPT ![b] = "failed"]
    /\ UNCHANGED <<raised, tree, raw, fs, dirs, manifest, mainpc, filepaths, batches,
                   lfpc, hidx, runs, started, outcomes>>
    /\ UNCHANGED hashvars

(* ------------------------------ load_file ------------------------------ *)
\* session.get(raw_api_url) is issued
load_file_get(b, j) ==
    /\ lfpc[b][j] = "ready"
    /\ lfpc' = [lfpc EXCEPT ![b][j] = "get"]
    /\ UNCHANGED <<raised, tree, raw, fs, dirs, manifest, mainpc, filepaths, batches,
                   bpc, hidx, runs, started, outcomes>>
    /\ UNCHANGED hashvars

\* the response arrives: the parent directories are made, response.read() is awaited
load_file_response(b, j) ==
    /\ lfpc[b][j] = "get"
    /\ lfpc' = [lfpc EXCEPT ![b][j] = "read"]
    /\ dirs' = Mkdir(dirs, Parent(LocalPath(batches[b][j])))
    /\ UNCHANGED <<raised, tree, raw, fs, manifest, mainpc, filepaths, batches,
                   bpc, hidx, runs, started, outcomes>>
    /\ UNCHANGED hashvars

\* the body is read: download_path.write_bytes(await response.read())
load_file_write(b, j) ==
    /\ lfpc[b][j] = "read"
    /\ lfpc' = [lfpc EXCEPT ![b][j] = "done"]
    /\ fs' = WriteBytes(fs, LocalPath(batches[b][j]), raw[batches[b][j]])
    /\ UNCHANGED <<raised, tree, raw, dirs, manifest, mainpc, filepaths, batches,
                   bpc, hidx, runs, started, outcomes>>
    /\ UNCHANGED hashvars

\* session.get, response.read, mkdir or write_bytes raises
load_file_fail(b, j) ==
    /\ lfpc[b][j] \in {"get", "read"}
    /\ lfpc' = [lfpc EXCEPT ![b][j] = "failed"]
    /\ UNCHANGED <<raised, tree, raw, fs, dirs, manifest, mainpc, filepaths, batches,
                   bpc, hidx, runs, started, outcomes>>
    /\ UNCHANGED hashvars

(* ------------------------------ main: gather --------------------------- *)
BatcherPcs == [i \in 1..FanOut |-> bpc[i - 1]]

\* await asyncio.gather(*[create_task(batcher(batch)) ...]) returns; the session
\* is closed and hash_files is entered
main_gather_return ==
    /\ mainpc = "gather"
    /\ gathered(BatcherPcs)
    /\ mainpc' = "hash"
    /\ hidx' = 0
    /\ UNCHANGED <<raised, tree, raw, fs, dirs, manifest, filepaths, batches, bpc, lfpc,
                   runs, started, outcomes>>
    /\ UNCHANGED hashvars

Cancel(pc) == IF pc \in {"ready", "get", "read", "gather"} THEN "cancelled" ELSE pc

\* the outer gather raises: the exception leaves main, and asyncio.run cancels
\* the tasks that are still pending
main_gather_raise ==
    /\ mainpc = "gather"
    /\ gather_raised(BatcherPcs)
    /\ mainpc' = "failed"
    /\ raised' = "load_file"
    /\ bpc' = [b \in 0..(FanOut - 1) |->
                  IF bpc[b] = "created" THEN "cancelled" ELSE Cancel(bpc[b])]
    /\ lfpc' = [b \in 0..(FanOut - 1) |->
                   [j \in 1..Len(lfpc[b]) |-> Cancel(lfpc[b][j])]]
    /\ UNCHANGED <<tree, raw, fs, dirs, manifest, filepaths, batches, hidx,
                   runs, started, outcomes>>
    /\ UNCHANGED hashvars

(* ------------------------------ main: hash_files ----------------------- *)
\* one iteration of the for loop: the file is opened and hashed, the line appended
hash_file ==
    /\ mainpc = "hash"
    /\ hidx < Len(filepaths)
    /\ LET filepath == hash_targets(filepaths)[hidx + 1]
       IN  /\ fs[filepath] # NoFile
           /\ manifest' = append_line(manifest,
                              Line(filepath, get_hexhash(fs[filepath], DefaultBufsize)))
    /\ hidx' = hidx + 1
    /\ UNCHANGED <<raised, tree, raw, fs, dirs, mainpc, filepaths, batches, bpc, lfpc,
                   runs, started, outcomes>>
    /\ UNCHANGED hashvars

hash_file_error_skips ==
    /\ mainpc = "hash"
    /\ hidx < Len(filepaths)
    /\ hidx' = hidx + 1
    /\ raised' = "hash_files"
    /\ UNCHANGED <<tree, raw, fs, dirs, manifest, mainpc, filepaths, batches, bpc,
                   lfpc, runs, started, outcomes>>
    /\ UNCHANGED hashvars

\* filepath.open('rb') or readinto raises: the exception leaves hash_files and main
hash_file_error ==
    /\ mainpc = "hash"
    /\ hidx < Len(filepaths)
    /\ mainpc' = "failed"
    /\ raised' = "hash_files"
    /\ UNCHANGED <<tree, raw, fs, dirs, manifest, filepaths, batches, bpc, lfpc,
                   hidx, runs, started, outcomes>>
    /\ UNCHANGED hashvars

\* the for loop is exhausted: hash_files and main return
hash_files_return ==
    /\ mainpc = "hash"
    /\ hidx = Len(filepaths)
    /\ mainpc' = "done"
    /\ UNCHANGED <<raised, tree, raw, fs, dirs, manifest, filepaths, batches, bpc, lfpc,
                   hidx, runs, started, outcomes>>
    /\ UNCHANGED hashvars

(* ------------------------------ specification -------------------------- *)
\* the load_file coroutines: batch and place in the batch
Slots == UNION { { <<b, j>> : j \in 1..Len(lfpc[b]) } : b \in 0..(FanOut - 1) }

Next ==
    \/ load_tree_ok
    \/ load_tree_fail
    \/ \E b \in 0..(FanOut - 1) : batcher_start(b)
    \/ \E s \in Slots : load_file_get(s[1], s[2])
    \/ \E s \in Slots : load_file_response(s[1], s[2])
    \/ \E s \in Slots : load_file_write(s[1], s[2])
    \/ \E s \in Slots : load_file_fail(s[1], s[2])
    \/ \E b \in 0..(FanOut - 1) : batcher_return(b)
    \/ \E b \in 0..(FanOut - 1) : batcher_raise(b)
    \/ main_gather_return
    \/ main_gather_raise
    \/ hash_file
    \/ hash_file_error
    \/ hash_files_return

Spec == Init /\ [][Next]_vars

(* ------------------------------ get_filepaths and batches alone -------- *)
\* any tree response, repeated entries included
InitTree ==
    /\ tree \in SeqUpTo(Entries, MaxAnyTree)
    /\ EnvInit
    /\ RunInit
    /\ HashIdle

NextTree ==
    \/ load_tree_ok
    \/ load_tree_fail

SpecTree == InitTree /\ [][NextTree]_vars

(* ------------------------------ running the script again --------------- *)
\* the script is started again: the remote tree, the local files and the hash
\* file are what the last run left
rerun ==
    /\ mainpc \in {"done", "failed"}
    /\ runs < MaxRuns
    /\ runs' = runs + 1
    /\ started' = Append(started, manifest)
    /\ outcomes' = Append(outcomes, mainpc)
    /\ mainpc' = "load_tree"
    /\ raised' = "none"
    /\ filepaths' = <<>>
    /\ batches' = EmptyBatches
    /\ bpc' = [b \in 0..(FanOut - 1) |-> "none"]
    /\ lfpc' = NoTasks
    /\ hidx' = 0
    /\ UNCHANGED <<tree, raw, fs, dirs, manifest>>
    /\ UNCHANGED hashvars

InitRerun ==
    /\ tree \in InjSeqUpTo(Entries, MaxRerunTree)
    /\ EnvInit
    /\ RunInit
    /\ HashIdle

NextRerun ==
    \/ Next
    \/ rerun

SpecRerun == InitRerun /\ [][NextRerun]_vars

(* ------------------------------ get_hexhash step by step --------------- *)
InitHash ==
    /\ tree = <<>>
    /\ EnvInit
    /\ RunInit
    /\ hfile \in SeqUpTo(Byte, MaxLen)
    /\ hpos = 0
    /\ buf \in { NewBuf(bufsize) : bufsize \in 1..MaxBuf }
    /\ digest = <<>>
    /\ hpc = "readinto"
    /\ hexhash = "none"

\* one iteration of the while loop: readinto stores size bytes, 1 <= size <=
\* len(buf), at the start of buf, and view[:size] is fed to the digest
hexhash_read ==
    /\ hpc = "readinto"
    /\ hpos < Len(hfile)
    /\ \E size \in 1..Min(buf.len, Len(hfile) - hpos) :
          /\ buf' = Readinto(buf, SubSeq(hfile, hpos + 1, hpos + size))
          /\ digest' = update(digest, view_upto(buf', size))
          /\ hpos' = hpos + size
    /\ UNCHANGED <<hfile, hpc, hexhash>>
    /\ UNCHANGED pipevars

\* readinto returns 0 at end of file: break, return digest.hexdigest()
hexhash_eof ==
    /\ hpc = "readinto"
    /\ hpos = Len(hfile)
    /\ hexhash' = hexdigest(digest)
    /\ hpc' = "done"
    /\ UNCHANGED <<hfile, hpos, buf, digest>>
    /\ UNCHANGED pipevars

NextHash ==
    \/ hexhash_read
    \/ hexhash_eof

SpecHash == InitHash /\ [][NextHash]_vars

(* ------------------------------ properties ----------------------------- *)
Count(seq, x) == Cardinality({ i \in DOMAIN seq : seq[i] = x })

IsPrefix(a, b) == Len(a) <= Len(b) /\ SubSeq(b, 1, Len(a)) = a

\* the lines the current run has added to the hash file
NewLines == SubSeq(manifest, Len(started[runs]) + 1, Len(manifest))

\* positions of the tree's entries that are not directories
Kept(t) == { i \in 1..Len(t) : t[i].type # "tree" }

\* the position of the j-th entry that is not a directory
NthKept(t, j) == CHOOSE i \in Kept(t) : Cardinality({ k \in Kept(t) : k < i }) = j - 1

\* load_file coroutines whose request is issued and whose body is not yet written
InFlight == { s \in Slots : lfpc[s[1]][s[2]] \in {"get", "read"} }

Failed == { s \in Slots : lfpc[s[1]][s[2]] = "failed" }

\* hash_files has been entered in this run
Hashing == mainpc \in {"hash", "done"} \/ raised = "hash_files"

\* C1: get_filepaths returns the paths of the entries that are not directories,
\* each once, in the order of the tree.
C1_FilepathsAreTheFilesInOrder ==
    mainpc = "gather" =>
        /\ Len(filepaths) = Cardinality(Kept(tree))
        /\ \A j \in 1..Len(filepaths) : filepaths[j] = tree[NthKept(tree, j)].path

C1_Witness ==
    /\ mainpc = "gather"
    /\ Len(tree) = 3
    /\ tree[1].type = "commit"
    /\ tree[2].type = "tree"
    /\ tree[3] = tree[1]

\* C2: the round-robin assignment gives batches whose sizes differ by at most 1
\* and that hold every listed path exactly as often as the list does; there is
\* one load_file coroutine per batch element.
C2_RoundRobinPartition ==
    mainpc = "gather" =>
        /\ \A a, b \in 0..(FanOut - 1) : Len(batches[a]) - Len(batches[b]) <= 1
        /\ \A b \in 0..(FanOut - 1) : Len(lfpc[b]) = Len(batches[b])
        /\ \A p \in Paths :
              Count(filepaths, p)
                  = Count(batches[0], p) + Count(batches[1], p) + Count(batches[2], p)
        /\ \A i \in 0..(Len(filepaths) - 1) :
              batches[i % FanOut][(i \div FanOut) + 1] = filepaths[i + 1]

C2_Witness ==
    /\ mainpc = "gather"
    /\ Len(filepaths) = 2
    /\ Len(batches[0]) = 1 /\ Len(batches[1]) = 1 /\ Len(batches[2]) = 0

\* C3: hash_files is entered only when every load_file of every batch has
\* finished normally; nothing is in flight while files are hashed.
C3_HashAfterAllDownloads ==
    Hashing =>
        /\ \A s \in Slots : lfpc[s[1]][s[2]] = "done"
        /\ \A b \in 0..(FanOut - 1) : bpc[b] = "done" /\ Len(lfpc[b]) = Len(batches[b])
        /\ InFlight = {}
        /\ \A i \in 1..Len(filepaths) : fs[LocalPath(filepaths[i])] = raw[filepaths[i]]

C3_Witness ==
    /\ mainpc = "hash"
    /\ hidx = 1
    /\ Len(filepaths) = 4

\* C4: the run adds one line per hashed file, and the i-th added line is the
\* line of the i-th path of get_filepaths's list.
C4_ManifestInListingOrder ==
    /\ Hashing =>
          /\ Len(NewLines) = hidx
          /\ \A i \in 1..hidx :
                NewLines[i] = Line(LocalPath(filepaths[i]),
                                   hexdigest(fs[LocalPath(filepaths[i])]))
    /\ mainpc = "done" => hidx = Len(filepaths)

C4_Witness ==
    /\ mainpc = "done"
    /\ filepaths = <<"mod", "c.txt", "sub/b.txt", "a.txt">>
    /\ Len(NewLines) = 4

\* C5: once a load_file has raised, the run never enters hash_files and never
\* finishes normally, the hash file gets no line, and the exception is on its
\* way out of main or has left it.
C5_FailedFetchFailsTheRun ==
    Failed # {} =>
        /\ ~Hashing
        /\ NewLines = <<>>
        /\ \/ mainpc = "failed" /\ raised = "load_file"
           \/ mainpc = "gather"
              /\ ENABLED (main_gather_raise \/ \E b \in 0..(FanOut - 1) : batcher_raise(b))

C5_Witness ==
    /\ mainpc = "failed"
    /\ Cardinality(Failed) = 1
    /\ \E s \in Slots : lfpc[s[1]][s[2]] = "done"
    /\ \E s \in Slots : lfpc[s[1]][s[2]] = "cancelled"

\* C6: a run that ends normally leaves, for every listed path, the body of the
\* raw endpoint at the local destination and one new line with the digest of
\* that body; directory entries get no coroutine, no file and no line.
C6_EndToEnd ==
    mainpc = "done" =>
        /\ Len(NewLines) = Len(filepaths)
        /\ \A i \in 1..Len(filepaths) :
              /\ fs[LocalPath(filepaths[i])] = raw[filepaths[i]]
              /\ NewLines[i].hash = hexdigest(raw[filepaths[i]])
              /\ NewLines[i].file = LocalPath(filepaths[i])
        /\ \A e \in Entries :
              e.type = "tree" =>
                  /\ \A s \in Slots : batches[s[1]][s[2]] # e.path
                  /\ fs[LocalPath(e.path)] # raw[e.path]
                  /\ \A i \in 1..Len(NewLines) : NewLines[i].file # LocalPath(e.path)
        /\ \A p \in Paths :
              Count(filepaths, p) = Cardinality({ i \in 1..Len(tree) :
                                                     tree[i].path = p /\ tree[i].type # "tree" })

C6_Witness ==
    /\ mainpc = "done"
    /\ started[1] = <<StaleLine>>
    /\ tree = << [path |-> "a.txt", type |-> "blob"],
                 [path |-> "sub", type |-> "tree"],
                 [path |-> "sub/b.txt", type |-> "blob"] >>

\* C7 as stated: at most FanOut load_file downloads are in flight at any time.
C7_AtMostFanOutInFlight == Cardinality(InFlight) <= FanOut

\* C7 amended: at most FanOut batcher tasks run, each with all of its batch in
\* flight at once, so the downloads in flight are bounded by the number of
\* listed paths only.
C7_InFlightBoundedByPaths ==
    /\ Cardinality({ b \in 0..(FanOut - 1) : bpc[b] = "gather" }) <= FanOut
    /\ Cardinality(Slots) = Len(filepaths)
    /\ Cardinality(InFlight) <= Len(filepaths)

C7_Witness ==
    /\ Cardinality(InFlight) = 4
    /\ Len(filepaths) = 4

\* C8: no run removes or changes a line the hash file had when the run began,
\* and two runs in a row that end normally leave the lines of the first run
\* followed by lines for the same paths in the same order.
C8_AppendOnlyAcrossRuns ==
    /\ \A r \in 1..runs : IsPrefix(started[r], manifest)
    /\ \A r \in 1..(runs - 1) : IsPrefix(started[r], started[r + 1])
    /\ (runs >= 2 /\ outcomes[runs - 1] = "done" /\ mainpc = "done") =>
          LET first  == SubSeq(started[runs], Len(started[runs - 1]) + 1,
                               Len(started[runs]))
              L      == Len(filepaths)
          IN  /\ Len(first) = L
              /\ Len(NewLines) = L
              /\ manifest = started[runs - 1] \o first \o NewLines
              /\ \A i \in 1..L : /\ first[i].file = LocalPath(filepaths[i])
                                 /\ NewLines[i].file = LocalPath(filepaths[i])

C8_Witness ==
    /\ runs = 2
    /\ outcomes = <<"done">>
    /\ mainpc = "done"
    /\ Len(filepaths) = 2
    /\ started[1] = <<StaleLine>>
    /\ Len(manifest) = 5

\* C9: when reading the k-th file fails in hash_files, main ends in failure and
\* the hash file has gained the lines of files 0..k-1, in order, and nothing else.
C9_ReadFailureAbortsHashing ==
    raised = "hash_files" =>
        /\ mainpc = "failed"
        /\ hidx < Len(filepaths)
        /\ Len(NewLines) = hidx
        /\ \A i \in 1..hidx :
              NewLines[i] = Line(LocalPath(filepaths[i]), hexdigest(raw[filepaths[i]]))
        /\ ~ENABLED hash_file

C9_Witness ==
    /\ raised = "hash_files"
    /\ hidx = 2
    /\ Len(filepaths) = 4

\* what holds of get_hexhash's variables at every point of the loop
HexhashInvariant ==
    /\ hpos <= Len(hfile)
    /\ digest = SubSeq(hfile, 1, hpos)
    /\ hpc = "readinto" => ENABLED NextHash
    /\ hpc = "done" =>
          /\ digest = hfile
          /\ hexhash = hexdigest(hfile)
          /\ hexhash = get_hexhash(hfile, DefaultBufsize)
          /\ hexhash = get_hexhash(hfile, buf.len)

\* C10: whatever the buffer size and the sizes of the reads, the loop feeds the
\* digest the bytes read so far, every iteration reads at least one byte until
\* the end-of-file read ends the loop, and the returned digest is that of the
\* whole file, the same as with the default buffer size.
C10_HexhashFeedsTheFileOnce ==
    /\ []HexhashInvariant
    /\ [][hpc = "readinto" /\ (hpos' > hpos \/ hpc' = "done")]_hashvars

C10_Witness ==
    /\ hpc = "done"
    /\ hfile = <<1, 1, 0>>
    /\ buf.len = 2
    /\ buf.data = <<0, 1>>

====
